---- MODULE Spec2Model ----
(***************************************************************************)
(* Model of the generation-and-ranking pipeline of the AI text processing  *)
(* tool: the Ollama text processor (getDefaultPromptTemplate, processText, *)
(* cleanResponse, rankGenerations) and the page component that drives it   *)
(* (handleSubmit, handleRank).                                             *)
(*                                                                         *)
(* A JavaScript string is a sequence of one-character strings.  An error   *)
(* message is a sequence too: its fixed words are single elements, the     *)
(* values interpolated into it follow character by character.              *)
(***************************************************************************)
EXTENDS Integers, Sequences, FiniteSets, TLC

(***************************************************************************)
(* Bounds of the model.                                                    *)
(***************************************************************************)
MaxWireLen == 4
MaxReplyLen == 4
MaxGenerations == 3
MaxPieces == 2
MaxUIWireLen == 2
MaxUIReplyLen == 2
MaxRawPieces == 4
MaxSeed == 3
\* the upper limit of the variations input checked by handleSubmit
MaxVariations == 5

(***************************************************************************)
(* String primitives of the JavaScript runtime.                            *)
(***************************************************************************)
NL == "\n"

\* the grave accent U+0060 and the apostrophe U+0027, which the lexer of TLA+
\* does not take inside a string: each is one character of the model
BACKTICK == "grave"

APOSTROPHE == "apostrophe"

WhiteSpace == {" ", NL}

Letters == <<"A","B","C","D","E","F","G","H","I","J","K","L","M",
             "N","O","P","Q","R","S","T","U","V","W","X","Y","Z">>

UpperCase == {Letters[i] : i \in 1..26}

LowerCase == {"a","b","c","d","e","f","g","h","i","j","k","l","m",
              "n","o","p","q","r","s","t","u","v","w","x","y","z"}

Alpha == UpperCase \cup LowerCase

Range(s) == {s[i] : i \in 1..Len(s)}

\* s.substring(from - 1): the suffix of s that starts at the 1-based index from
Drop(s, from) == SubSeq(s, from, Len(s))

\* the number of leading elements of s that belong to the class cls
RECURSIVE SpanLen(_, _)
SpanLen(s, cls) ==
  IF s # <<>> /\ Head(s) \in cls THEN 1 + SpanLen(Tail(s), cls) ELSE 0

RECURSIVE TrimStart(_)
TrimStart(s) ==
  IF s # <<>> /\ Head(s) \in WhiteSpace THEN TrimStart(Tail(s)) ELSE s

RECURSIVE TrimEnd(_)
TrimEnd(s) ==
  IF s # <<>> /\ s[Len(s)] \in WhiteSpace
  THEN TrimEnd(SubSeq(s, 1, Len(s) - 1)) ELSE s

\* String.prototype.trim
Trim(s) == TrimEnd(TrimStart(s))

\* String.prototype.startsWith
StartsWith(s, p) == Len(p) <= Len(s) /\ SubSeq(s, 1, Len(p)) = p

\* s has the pattern p at the 1-based index i
MatchAt(s, p, i) == i + Len(p) - 1 <= Len(s) /\ SubSeq(s, i, i + Len(p) - 1) = p

\* String.prototype.indexOf from a 1-based index on; 0 when there is none
RECURSIVE IndexFrom(_, _, _)
IndexFrom(s, p, i) ==
  IF i + Len(p) - 1 > Len(s) THEN 0
  ELSE IF MatchAt(s, p, i) THEN i
  ELSE IndexFrom(s, p, i + 1)

\* GetSubstitution of ECMAScript for a string pattern (no capture groups):
\* in the replacement text $$ is a dollar sign, $& the matched text, $ with a
\* grave accent the text before the match and $ with an apostrophe the text
\* after it; any other $ is literal.
RECURSIVE GetSubstitution(_, _, _, _)
GetSubstitution(matched, str, position, replacement) ==
  IF replacement = <<>> THEN <<>>
  ELSE IF Head(replacement) = "$" /\ Len(replacement) >= 2
            /\ replacement[2] \in {"$", "&", BACKTICK, APOSTROPHE}
       THEN (CASE replacement[2] = "$" -> <<"$">>
               [] replacement[2] = "&" -> matched
               [] replacement[2] = BACKTICK -> SubSeq(str, 1, position - 1)
               [] replacement[2] = APOSTROPHE -> Drop(str, position + Len(matched)))
            \o GetSubstitution(matched, str, position, Drop(replacement, 3))
       ELSE <<Head(replacement)>>
            \o GetSubstitution(matched, str, position, Tail(replacement))

\* String.prototype.replaceAll(pattern, replacement) with a string pattern:
\* every occurrence found scanning left to right, none overlapping
RECURSIVE ReplaceAllFrom(_, _, _, _)
ReplaceAllFrom(s, p, r, from) ==
  LET i == IndexFrom(s, p, from) IN
  IF i = 0 THEN Drop(s, from)
  ELSE SubSeq(s, from, i - 1) \o GetSubstitution(p, s, i, r)
       \o ReplaceAllFrom(s, p, r, i + Len(p))

replaceAll(s, p, r) == ReplaceAllFrom(s, p, r, 1)

(***************************************************************************)
(* Prompt templates and prompt construction.                               *)
(***************************************************************************)
undefined == <<"undefined">>

\* JavaScript truthiness of an optional string
Truthy(s) == s # undefined /\ s # <<>>

TEXT_PH == <<"{","T","E","X","T","}">>

LANGUAGE_PH == <<"{","L","A","N","G","U","A","G","E","}">>

English == <<"E","n","g","l","i","s","h">>

\* OperationType of lib/types
OperationType == {"rephrase", "grammar", "simplify", "expand", "formal",
                  "casual", "to-bullets", "to-paragraph", "remove-filler",
                  "translate", "translate-pt", "translate-en"}

\* the imported prompt files, cut down to their placeholders
rephrasePrompt == <<"r", ":">> \o TEXT_PH

grammarPrompt == <<"g", ":">> \o TEXT_PH

translatePrompt == LANGUAGE_PH \o <<":">> \o TEXT_PH

\* the operations getDefaultPromptTemplate has a case for
Supported == {"rephrase", "grammar", "translate", "translate-pt", "translate-en"}

Returned(v) == [threw |-> FALSE, value |-> v]

Thrown(msg) == [threw |-> TRUE, value |-> msg]

\* a faulty variant: the default branch returns the rephrase template
getDefaultPromptTemplateLenient(operation) ==
  CASE operation = "grammar" -> Returned(grammarPrompt)
    [] operation \in {"translate", "translate-pt", "translate-en"} ->
         Returned(translatePrompt)
    [] OTHER -> Returned(rephrasePrompt)

getDefaultPromptTemplate(operation) ==
  CASE operation = "rephrase" -> Returned(rephrasePrompt)
    [] operation = "grammar" -> Returned(grammarPrompt)
    [] operation \in {"translate", "translate-pt", "translate-en"} ->
         Returned(translatePrompt)
    [] OTHER -> Thrown(<<"Unsupported operation: ", operation>>)

\* the two chained replaceAll calls of processText
Substitute(template, text, targetLanguage) ==
  replaceAll(replaceAll(template, TEXT_PH, text), LANGUAGE_PH,
             IF Truthy(targetLanguage) THEN targetLanguage ELSE English)

\* the prompt block of processText: the custom prompt is substituted in its
\* branch and once more after the branch; the default template only after it
BuildPrompt(request) ==
  IF Truthy(request.customPrompt) /\ Truthy(Trim(request.customPrompt))
  THEN Returned(Substitute(
         Substitute(request.customPrompt, request.text, request.targetLanguage),
         request.text, request.targetLanguage))
  ELSE LET t == getDefaultPromptTemplate(request.operation) IN
       IF t.threw THEN t
       ELSE Returned(Substitute(t.value, request.text, request.targetLanguage))

(***************************************************************************)
(* cleanResponse.                                                          *)
(***************************************************************************)
prefixes == <<
  <<"R","e","w","r","i","t","t","e","n",":">>,
  <<"C","o","r","r","e","c","t","e","d",":">>,
  <<"S","i","m","p","l","i","f","i","e","d",":">>,
  <<"E","x","p","a","n","d","e","d",":">>,
  <<"F","o","r","m","a","l"," ","v","e","r","s","i","o","n",":">>,
  <<"C","a","s","u","a","l"," ","v","e","r","s","i","o","n",":">>,
  <<"B","u","l","l","e","t"," ","p","o","i","n","t","s",":">>,
  <<"P","a","r","a","g","r","a","p","h",":">>,
  <<"C","l","e","a","n","e","d",":">>,
  <<"T","r","a","n","s","l","a","t","i","o","n",":">>,
  <<"T","e","x","t",":">>,
  <<"O","u","t","p","u","t",":">>,
  <<"R","e","s","u","l","t",":">> >>

translationWord == <<"t","r","a","n","s","l","a","t","i","o","n",":">>

\* length of the match of /^[A-Za-z]+\s+translation:\s*/ on s; 0 when none
TranslationPrefixLen(s) ==
  LET a == SpanLen(s, Alpha)
      w == SpanLen(Drop(s, a + 1), WhiteSpace)
      k == a + w + Len(translationWord)
  IN IF a >= 1 /\ w >= 1 /\ MatchAt(s, translationWord, a + w + 1)
     THEN k + SpanLen(Drop(s, k + 1), WhiteSpace)
     ELSE 0

\* a faulty variant of the loop over prefixes: no break after a cut
RECURSIVE StripEveryPrefix(_, _)
StripEveryPrefix(s, i) ==
  IF i > Len(prefixes) THEN s
  ELSE IF StartsWith(s, prefixes[i])
  THEN StripEveryPrefix(Trim(Drop(s, Len(prefixes[i]) + 1)), i + 1)
  ELSE StripEveryPrefix(s, i + 1)

\* the for loop over prefixes: the first prefix s starts with is cut, then break
RECURSIVE StripFirstPrefix(_, _)
StripFirstPrefix(s, i) ==
  IF i > Len(prefixes) THEN s
  ELSE IF StartsWith(s, prefixes[i]) THEN Trim(Drop(s, Len(prefixes[i]) + 1))
  ELSE StripFirstPrefix(s, i + 1)

FENCE == <<BACKTICK, BACKTICK, BACKTICK>>

\* s.replace(/(3 graves)[\s\S]*?(3 graves)/g, ""): each fence of three grave
\* accents up to the nearest closing fence, with what lies between
RECURSIVE RemoveFences(_, _)
RemoveFences(s, from) ==
  LET i == IndexFrom(s, FENCE, from)
      j == IF i = 0 THEN 0 ELSE IndexFrom(s, FENCE, i + 3)
  IN IF j = 0 THEN Drop(s, from)
     ELSE SubSeq(s, from, i - 1) \o RemoveFences(s, j + 3)

\* the number of leading elements of s other than c
RECURSIVE SpanNot(_, _)
SpanNot(s, c) == IF s # <<>> /\ Head(s) # c THEN 1 + SpanNot(Tail(s), c) ELSE 0

\* s.replace(/(grave)([^(grave)]+)(grave)/g, "$1"): a pair of grave accents
\* around one or more other characters is dropped and its content kept
RECURSIVE UnwrapInline(_, _)
UnwrapInline(s, from) ==
  LET i == IndexFrom(s, <<BACKTICK>>, from)
      n == IF i = 0 THEN 0 ELSE SpanNot(Drop(s, i + 1), BACKTICK)
  IN IF i = 0 THEN Drop(s, from)
     ELSE IF n >= 1 /\ i + 1 + n <= Len(s)
          THEN SubSeq(s, from, i - 1) \o SubSeq(s, i + 1, i + n)
               \o UnwrapInline(s, i + n + 2)
          ELSE SubSeq(s, from, i) \o UnwrapInline(s, i + 1)

cleanResponse(response, operation) ==
  LET trimmed == Trim(response)
      m == TranslationPrefixLen(trimmed)
      unlabelled == IF m > 0 THEN Trim(Drop(trimmed, m + 1))
                    ELSE StripFirstPrefix(trimmed, 1)
      unfenced == Trim(RemoveFences(unlabelled, 1))
  IN Trim(UnwrapInline(unfenced, 1))

(***************************************************************************)
(* The ranking reply parser of rankGenerations.                            *)
(***************************************************************************)
\* a faulty variant: the pattern anchored at the start of the reply
FirstUpperAnchored(s, i) == IF s # <<>> /\ s[1] \in UpperCase THEN 1 ELSE 0

\* 1-based index of the first upper-case letter of s; 0 when there is none
RECURSIVE FirstUpper(_, _)
FirstUpper(s, i) ==
  IF i > Len(s) THEN 0
  ELSE IF s[i] \in UpperCase THEN i
  ELSE FirstUpper(s, i + 1)

\* length of the longest match of (?:\s*,\s*[A-Z])* at the head of t
RECURSIVE ChainLen(_)
ChainLen(t) ==
  LET w1 == SpanLen(t, WhiteSpace)
      w2 == SpanLen(Drop(t, w1 + 2), WhiteSpace)
      k == w1 + w2 + 2
  IN IF w1 + 1 <= Len(t) /\ t[w1 + 1] = "," /\ k <= Len(t) /\ t[k] \in UpperCase
     THEN k + ChainLen(Drop(t, k + 1))
     ELSE 0

\* capture group 1 of /\[?\s*([A-Z](?:\s*,\s*[A-Z])*)\s*\]?/ on the reply:
\* the group starts at the first upper-case letter of the reply
RankingMatch(responseText) ==
  LET i == FirstUpper(responseText, 1) IN
  IF i = 0 THEN [matched |-> FALSE, group |-> <<>>]
  ELSE [matched |-> TRUE,
        group |-> SubSeq(responseText, i,
                         i + ChainLen(Drop(responseText, i + 1)))]

\* s.split(/\s*,\s*/)
RECURSIVE SplitComma(_, _)
SplitComma(s, cur) ==
  IF s = <<>> THEN <<cur>>
  ELSE LET w == SpanLen(s, WhiteSpace) IN
       IF w + 1 <= Len(s) /\ s[w + 1] = ","
       THEN <<cur>> \o SplitComma(TrimStart(Drop(s, w + 2)), <<>>)
       ELSE SplitComma(Tail(s), Append(cur, Head(s)))

\* a faulty variant: the index counted from 1
LetterIndexFromOne(letter) == IndexFrom(Letters, Trim(letter), 1)

\* letters.indexOf(letter.trim()), 0-based, -1 when absent
LetterIndex(letter) == IndexFrom(Letters, Trim(letter), 1) - 1

\* a faulty variant: no index is tested against the number of candidates
AllIndices(rankedLetters, n) ==
  [i \in 1..Len(rankedLetters) |-> LetterIndex(rankedLetters[i])]

\* the loop that keeps the indices inside [0, n)
RECURSIVE InRangeIndices(_, _)
InRangeIndices(rankedLetters, n) ==
  IF rankedLetters = <<>> THEN <<>>
  ELSE LET index == LetterIndex(Head(rankedLetters))
           rest == InRangeIndices(Tail(rankedLetters), n)
       IN IF index >= 0 /\ index < n THEN <<index>> \o rest ELSE rest


(***************************************************************************)
(* State.                                                                  *)
(*   calls       the activations of processText, in call order             *)
(*   rcalls      the activations of rankGenerations, in call order         *)
(*   tmpl        the outcome of the last direct getDefaultPromptTemplate   *)
(*   cbLog       the index in calls of each onStream callback, in order    *)
(*   the state of the Home component (useState), and the activations of    *)
(*   its handlers handleSubmit (batch) and handleRank (ranker)             *)
(***************************************************************************)
VARIABLES calls, rcalls, tmpl, cbLog,
          appState, inputText, operation, numVariations, targetLanguage,
          systemPrompt, variations, isRanking, hasRanked, batch, ranker

libVars == <<calls, rcalls, tmpl, cbLog>>

uiVars == <<appState, inputText, operation, numVariations, targetLanguage,
            systemPrompt, variations, isRanking, hasRanked, batch, ranker>>

vars == <<calls, rcalls, tmpl, cbLog, appState, inputText, operation,
          numVariations, targetLanguage, systemPrompt, variations, isRanking,
          hasRanked, batch, ranker>>

(***************************************************************************)
(* The response stream of the backend.  The body is newline-delimited      *)
(* JSON; a chunk of it is a sequence of symbols, each the newline or one   *)
(* segment of a line: a piece of the "response" text, the "done": true     *)
(* member, or bytes that are no JSON.                                      *)
(***************************************************************************)
Newline == [t |-> "nl"]

DoneMember == [t |-> "done"]

Garbage == [t |-> "bad"]

Piece(text) == [t |-> "resp", text |-> text]

TextLabel == <<"T","e","x","t",":">>

Symbols == {Newline, DoneMember, Garbage, Piece(<<"x">>), Piece(TextLabel)}

\* the sequences over S of length 1..n
RECURSIVE SeqsUpTo(_, _)
SeqsUpTo(S, n) ==
  IF n <= 0 THEN {}
  ELSE LET shorter == SeqsUpTo(S, n - 1) IN
       {<<x>> : x \in S} \cup shorter
       \cup {Append(q, x) : q \in {r \in shorter : Len(r) = n - 1}, x \in S}

\* buffer.split("\n")
RECURSIVE Split(_, _)
Split(buf, cur) ==
  IF buf = <<>> THEN <<cur>>
  ELSE IF Head(buf) = Newline THEN <<cur>> \o Split(Tail(buf), <<>>)
  ELSE Split(Tail(buf), Append(cur, Head(buf)))

\* json.response: the last response member of the line; a line without one
\* carries the empty response, as the final line of a stream does
ResponseOf(line) ==
  LET members == {i \in 1..Len(line) : line[i].t = "resp"}
  IN IF members = {} THEN <<>>
     ELSE line[CHOOSE i \in members : \A j \in members : j <= i].text

\* JSON.parse(line) and the members the loop reads from it
ParseJSON(line) ==
  IF \E i \in 1..Len(line) : line[i] = Garbage THEN Thrown(<<"SyntaxError">>)
  ELSE Returned([response |-> ResponseOf(line),
                 done |-> \E i \in 1..Len(line) : line[i] = DoneMember])

(***************************************************************************)
(* processText.                                                            *)
(***************************************************************************)
NoResult == [success |-> FALSE, processedText |-> undefined, error |-> undefined,
             settled |-> FALSE]

Failure(error) == [success |-> FALSE, processedText |-> undefined,
                   error |-> error, settled |-> TRUE]

Success(processedText) == [success |-> TRUE, processedText |-> processedText,
                           error |-> undefined, settled |-> TRUE]

\* return { success: false, error }
ReturnFailure(call, error) ==
  [call EXCEPT !.pc = "returned", !.result = Failure(error)]

\* a faulty variant of the outer catch: the backend is called again
RetryFetch(call, message) ==
  [call EXCEPT !.pc = "fetch", !.fetched = @ + 1]

\* a faulty variant of the outer catch: the error escapes processText
Rethrow(call, message) == [call EXCEPT !.pc = "threw"]

\* the outer catch of processText: the thrown error becomes the returned
\* failure
OuterCatch(call, message) == ReturnFailure(call, message)

\* !line.trim(): no symbol of the stream is white space, so the blank line
\* is the empty one
Blank(line) == line = <<>>

\* a faulty variant of the accumulation: accumulatedText = json.response
AccumulateDelta(accumulatedText, response) == response

\* accumulatedText += json.response
Accumulate(accumulatedText, response) == accumulatedText \o response

\* the for loop over the complete lines of one chunk; st holds
\* accumulatedText, the arguments passed to onStream, the values of
\* json.response read so far and the number of lines JSON.parse rejected
RECURSIVE ProcessLines(_, _, _)
ProcessLines(st, lines, onStream) ==
  IF lines = <<>> THEN st
  ELSE IF Blank(Head(lines)) THEN ProcessLines(st, Tail(lines), onStream)
  ELSE LET json == ParseJSON(Head(lines)) IN
       IF json.threw
       THEN ProcessLines([st EXCEPT !.parseErrors = @ + 1], Tail(lines), onStream)
       ELSE LET response == json.value.response
                acc == IF Truthy(response)
                       THEN Accumulate(st.accumulatedText, response)
                       ELSE st.accumulatedText
                next == [accumulatedText |-> acc,
                         streamed |-> IF Truthy(response) /\ onStream
                                      THEN Append(st.streamed, acc)
                                      ELSE st.streamed,
                         deltas |-> Append(st.deltas, response),
                         parseErrors |-> st.parseErrors]
            IN IF json.value.done THEN next
               ELSE ProcessLines(next, Tail(lines), onStream)

\* the body of the read loop for one chunk
OnChunk(call, chunk) ==
  LET lines == Split(call.buffer \o chunk, <<>>)
      st == ProcessLines([accumulatedText |-> call.accumulatedText,
                          streamed |-> call.streamed, deltas |-> call.deltas,
                          parseErrors |-> call.parseErrors],
                         SubSeq(lines, 1, Len(lines) - 1),
                         call.request.onStream)
  IN [call EXCEPT !.buffer = lines[Len(lines)],
                  !.accumulatedText = st.accumulatedText,
                  !.streamed = st.streamed,
                  !.deltas = st.deltas,
                  !.parseErrors = st.parseErrors,
                  !.received = call.received \o chunk]

\* a faulty variant: the cleaned text is never tested
NeverEmptyAfterCleaning(processedText) == FALSE

\* !processedText || !processedText.trim()
EmptyAfterCleaning(processedText) ==
  ~Truthy(processedText) \/ ~Truthy(Trim(processedText))

\* a faulty variant of the code after the read loop: the accumulated text
\* is returned as it is
FinishUncleaned(call) ==
  IF ~Truthy(call.accumulatedText) \/ ~Truthy(Trim(call.accumulatedText))
  THEN ReturnFailure(call, <<"Model generation failed: empty response">>)
  ELSE [call EXCEPT !.pc = "returned",
                    !.result = Success(call.accumulatedText)]

\* the code after the read loop
Finish(call) ==
  IF ~Truthy(call.accumulatedText) \/ ~Truthy(Trim(call.accumulatedText))
  THEN ReturnFailure(call, <<"Model generation failed: empty response">>)
  ELSE LET processedText ==
             cleanResponse(call.accumulatedText, call.request.operation)
       IN IF EmptyAfterCleaning(processedText)
          THEN ReturnFailure(call,
                 <<"Model generation failed: empty result after cleaning">>)
          ELSE [call EXCEPT !.pc = "returned",
                            !.result = Success(processedText)]

\* the prompt is built; fetch is called and awaited
IssueFetch(call, prompt) ==
  [call EXCEPT !.pc = "fetch", !.fetched = call.fetched + 1,
               !.body = [prompt |-> prompt, stream |-> TRUE]]

\* a faulty variant of the input test: !request.text
EmptyInputUntrimmed(request) == ~Truthy(request.text)

\* !request.text.trim()
EmptyInput(request) == ~Truthy(Trim(request.text))

\* processText from its call to its first await or return
ProcessTextCall(request) ==
  LET call == [fn |-> "processText", pc |-> "called", request |-> request,
               fetched |-> 0, body |-> [prompt |-> <<>>, stream |-> FALSE],
               status |-> "", buffer |-> <<>>, accumulatedText |-> <<>>,
               streamed |-> <<>>, deltas |-> <<>>, received |-> <<>>,
               parseErrors |-> 0, faults |-> {}, errorText |-> undefined,
               result |-> NoResult]
  IN IF EmptyInput(request)
     THEN ReturnFailure(call, <<"Please enter some text to process">>)
     ELSE LET prompt == BuildPrompt(request) IN
          IF prompt.threw
          THEN ReturnFailure(call, <<"Error generating prompt: ">> \o prompt.value)
          ELSE IssueFetch(call, prompt.value)

\* what the backend may do to a fetch
FetchOutcomes == {"reject", "404", "500", "ok", "ok-nobody"}

ErrorBodies == {<<>>, <<"n","o">>}

\* await fetch(...) settles
OnFetchSettled(call, outcome) ==
  CASE outcome = "reject" ->
         OuterCatch([call EXCEPT !.faults = @ \cup {"network"}],
                    <<"Failed to fetch">>)
    [] outcome \in {"404", "500"} ->
         [call EXCEPT !.pc = "text", !.status = outcome,
                      !.faults = @ \cup {"status"}]
    [] outcome = "ok-nobody" ->
         ReturnFailure([call EXCEPT !.faults = @ \cup {"nobody"}],
                       <<"No response body from Ollama API">>)
    [] OTHER -> [call EXCEPT !.pc = "read", !.status = "200"]

\* a faulty variant: the error names the status alone
OnErrorTextStatusOnly(call, errorText) ==
  ReturnFailure([call EXCEPT !.errorText = errorText],
    <<"Ollama API error: ", call.status>>)

\* await response.text() of a reply that is not ok settles
OnErrorText(call, errorText) ==
  ReturnFailure([call EXCEPT !.errorText = errorText],
    <<"Ollama API error: ", call.status, " - ">>
    \o (IF Truthy(errorText) THEN errorText
        ELSE <<"Check if Ollama is running">>))

\* await reader.read() settles: a chunk, the end of the stream, or an error
OnRead(call, ev) ==
  CASE ev.t = "chunk" ->
         OnChunk(call, ev.value)
    [] ev.t = "done" -> Finish(call)
    [] OTHER -> OuterCatch([call EXCEPT !.faults = @ \cup {"read"}],
                           <<"network error">>)

ReadEvents(call, maxLen) ==
  {[t |-> "done"], [t |-> "error"]}
  \cup {[t |-> "chunk", value |-> c] :
          c \in SeqsUpTo(Symbols, maxLen - Len(call.received))}


(***************************************************************************)
(* rankGenerations.                                                        *)
(***************************************************************************)
RankFailure(error) == [success |-> FALSE, ranking |-> <<>>, error |-> error,
                       settled |-> TRUE]

RankSuccess(ranking) == [success |-> TRUE, ranking |-> ranking,
                         error |-> undefined, settled |-> TRUE]

NoRanking == [success |-> FALSE, ranking |-> <<>>, error |-> undefined,
              settled |-> FALSE]

\* a faulty variant of the outer catch: the backend is called again
RankRetry(call, message) ==
  [call EXCEPT !.pc = "fetch", !.fetched = @ + 1]

\* the outer catch of rankGenerations
RankCatch(call, message) ==
  [call EXCEPT !.pc = "returned", !.result = RankFailure(message)]

\* a faulty variant of the short-circuit test: generations.length < 1
NoGenerations(generations) == Len(generations) < 1

\* request.generations.length < 2
TooFew(generations) == Len(generations) < 2

\* rankGenerations from its call to its first await or return
RankGenerationsCall(request) ==
  LET call == [fn |-> "rankGenerations", pc |-> "called", request |-> request,
               fetched |-> 0, body |-> [stream |-> TRUE], status |-> "",
               reply |-> undefined, errorText |-> undefined, faults |-> {},
               result |-> NoRanking]
  IN IF TooFew(request.generations)
     THEN [call EXCEPT !.pc = "returned", !.result = RankSuccess(<<0>>)]
     ELSE [call EXCEPT !.pc = "fetch", !.fetched = call.fetched + 1,
                       !.body = [stream |-> FALSE]]

OnRankFetchSettled(call, outcome) ==
  CASE outcome = "reject" ->
         RankCatch([call EXCEPT !.faults = @ \cup {"network"}],
                   <<"Failed to fetch">>)
    [] outcome \in {"404", "500"} ->
         [call EXCEPT !.pc = "text", !.status = outcome,
                      !.faults = @ \cup {"status"}]
    [] OTHER -> [call EXCEPT !.pc = "json", !.status = "200"]

OnRankErrorText(call, errorText) ==
  [call EXCEPT !.pc = "returned", !.errorText = errorText,
               !.result = RankFailure(<<"Ollama API error: ", call.status, " - ">>
                                      \o errorText)]

\* a faulty variant of the completeness test: ranking.length < length
FewerThan(ranking, n) == Len(ranking) < n

\* ranking.length !== request.generations.length
IncompleteRanking(ranking, n) == Len(ranking) # n

\* the code from the reply text to the return
ParseReply(call, responseText) ==
  LET n == Len(call.request.generations)
      rankingMatch == RankingMatch(responseText)
      ranking == InRangeIndices(SplitComma(rankingMatch.group, <<>>), n)
      done == [call EXCEPT !.pc = "returned", !.reply = responseText]
  IN IF ~Truthy(responseText)
     THEN [done EXCEPT !.result =
             RankFailure(<<"Ranking failed: no response from Ollama">>),
             !.faults = @ \cup {"empty"}]
     ELSE IF ~rankingMatch.matched
     THEN [done EXCEPT !.result =
             RankFailure(<<"Could not extract ranking from response">>)]
     ELSE IF IncompleteRanking(ranking, n)
     THEN [done EXCEPT !.result =
             RankFailure(<<"Incomplete ranking: expected ", ToString(n),
                           " items, got ", ToString(Len(ranking))>>)]
     ELSE [done EXCEPT !.result = RankSuccess(ranking)]

\* await response.json() settles: it rejects on a body that is no JSON,
\* else result.response is read
OnRankJson(call, ev) ==
  IF ev.t = "reject"
  THEN RankCatch([call EXCEPT !.faults = @ \cup {"malformed"}],
                 <<"Unexpected token">>)
  ELSE ParseReply(call, ev.value)


(***************************************************************************)
(* The inputs of the library's callers and the replies of the backend.     *)
(***************************************************************************)
\* the concatenations of at most n elements of the set of strings P
RECURSIVE Concats(_, _)
Concats(P, n) ==
  IF n <= 0 THEN {<<>>}
  ELSE LET shorter == Concats(P, n - 1) IN
       shorter \cup {q \o x : q \in shorter, x \in P}

Requests ==
  [text : {<<>>, <<" ">>, <<"x">>},
   operation : {"rephrase", "translate", "simplify"},
   customPrompt : {undefined, <<" ">>, TEXT_PH},
   targetLanguage : {undefined, <<"p","t">>},
   onStream : BOOLEAN]

\* the requests that exercise the prompt block
PromptRequests ==
  [text : Concats({<<"x">>, <<"$","$">>, <<"$","&">>, TEXT_PH, LANGUAGE_PH},
                  MaxPieces),
   operation : {"translate", "simplify"},
   customPrompt : {undefined} \cup
                  Concats({<<"a">>, <<" ">>, TEXT_PH, LANGUAGE_PH}, MaxPieces + 1),
   targetLanguage : {undefined, <<"p","t">>, TEXT_PH},
   onStream : {FALSE}]

RankRequests ==
  {[task |-> <<"t">>, generations |-> [i \in 1..n |-> <<"g">>]] :
     n \in 0..MaxGenerations}

RECURSIVE Join(_, _)
Join(ls, sep) ==
  IF Len(ls) = 0 THEN <<>>
  ELSE IF Len(ls) = 1 THEN <<ls[1]>>
  ELSE <<ls[1]>> \o sep \o Join(Tail(ls), sep)

\* the values of result.response the backend may answer a ranking with
Replies ==
  {undefined, <<>>, <<"n","o">>}
  \cup {pre \o Join(ls, sep) \o post :
          pre \in {<<>>, <<"[">>, <<"n"," ">>, <<"T"," ">>},
          ls \in SeqsUpTo({"A", "B", "C", "Z"}, MaxReplyLen),
          sep \in {<<",">>, <<" ",","," ">>},
          post \in {<<>>, <<"]">>, <<" ","B">>}}

(***************************************************************************)
(* The component before any event: the state after the mount effect.       *)
(***************************************************************************)
NoBatch == [pc |-> "idle", i |-> 0, n |-> 0, newVariations |-> <<>>,
            call |-> 0,
            request |-> [text |-> <<>>, operation |-> "rephrase",
                         customPrompt |-> undefined,
                         targetLanguage |-> undefined, onStream |-> TRUE]]

NoRanker == [pc |-> "idle", successfulGenerations |-> <<>>, call |-> 0]

NoTemplate == [operation |-> "", outcome |-> Returned(<<>>)]

UIInit ==
  /\ appState = [modelLoaded |-> TRUE, isProcessing |-> FALSE,
                 currentOperation |-> "rephrase"]
  /\ inputText = <<>>
  /\ operation = "rephrase"
  /\ numVariations = 1
  /\ targetLanguage = English
  /\ systemPrompt = rephrasePrompt
  /\ variations = <<>>
  /\ isRanking = FALSE
  /\ hasRanked = FALSE
  /\ batch = NoBatch
  /\ ranker = NoRanker

Init ==
  /\ calls = <<>>
  /\ rcalls = <<>>
  /\ tmpl = NoTemplate
  /\ cbLog = <<>>
  /\ UIInit

(***************************************************************************)
(* A caller of the library: one call at a time.                            *)
(***************************************************************************)
Settled(cs) == \A k \in 1..Len(cs) : cs[k].pc \in {"returned", "threw"}

Quiet == calls = <<>> /\ rcalls = <<>> /\ tmpl = NoTemplate

\* the caller is done with the result of its call
Discard ==
  /\ ~Quiet
  /\ Settled(calls) /\ Settled(rcalls)
  /\ calls' = <<>>
  /\ rcalls' = <<>>
  /\ tmpl' = NoTemplate
  /\ cbLog' = <<>>
  /\ UNCHANGED uiVars

CallGetDefaultPromptTemplate ==
  /\ Quiet
  /\ \E op \in OperationType :
       tmpl' = [operation |-> op, outcome |-> getDefaultPromptTemplate(op)]
  /\ UNCHANGED <<calls, rcalls, cbLog, uiVars>>

CallProcessText ==
  /\ Quiet
  /\ \E request \in Requests : calls' = <<ProcessTextCall(request)>>
  /\ UNCHANGED <<rcalls, tmpl, cbLog, uiVars>>

CallRankGenerations ==
  /\ Quiet
  /\ \E request \in RankRequests : rcalls' = <<RankGenerationsCall(request)>>
  /\ UNCHANGED <<calls, tmpl, cbLog, uiVars>>

\* the callbacks a step of call k made, appended to the callback order
Logged(k, before, after) ==
  cbLog \o [j \in 1..(Len(after.streamed) - Len(before.streamed)) |-> k]

FetchSettles ==
  /\ \E k \in 1..Len(calls) :
       /\ calls[k].pc = "fetch"
       /\ \E outcome \in FetchOutcomes :
            calls' = [calls EXCEPT ![k] = OnFetchSettled(calls[k], outcome)]
  /\ UNCHANGED <<rcalls, tmpl, cbLog, uiVars>>

ErrorTextSettles ==
  /\ \E k \in 1..Len(calls) :
       /\ calls[k].pc = "text"
       /\ \E errorText \in ErrorBodies :
            calls' = [calls EXCEPT ![k] = OnErrorText(calls[k], errorText)]
  /\ UNCHANGED <<rcalls, tmpl, cbLog, uiVars>>

ReadSettles ==
  /\ \E k \in 1..Len(calls) :
       /\ calls[k].pc = "read"
       /\ \E ev \in ReadEvents(calls[k], MaxWireLen) :
            LET after == OnRead(calls[k], ev) IN
            /\ calls' = [calls EXCEPT ![k] = after]
            /\ cbLog' = Logged(k, calls[k], after)
  /\ UNCHANGED <<rcalls, tmpl, uiVars>>

RankFetchSettles ==
  /\ \E k \in 1..Len(rcalls) :
       /\ rcalls[k].pc = "fetch"
       /\ \E outcome \in FetchOutcomes \ {"ok-nobody"} :
            rcalls' = [rcalls EXCEPT ![k] = OnRankFetchSettled(rcalls[k], outcome)]
  /\ UNCHANGED <<calls, tmpl, cbLog, uiVars>>

RankErrorTextSettles ==
  /\ \E k \in 1..Len(rcalls) :
       /\ rcalls[k].pc = "text"
       /\ \E errorText \in ErrorBodies :
            rcalls' = [rcalls EXCEPT ![k] = OnRankErrorText(rcalls[k], errorText)]
  /\ UNCHANGED <<calls, tmpl, cbLog, uiVars>>

RankJsonSettles ==
  /\ \E k \in 1..Len(rcalls) :
       /\ rcalls[k].pc = "json"
       /\ \E ev \in {[t |-> "reject"]} \cup {[t |-> "json", value |-> r] : r \in Replies} :
            rcalls' = [rcalls EXCEPT ![k] = OnRankJson(rcalls[k], ev)]
  /\ UNCHANGED <<calls, tmpl, cbLog, uiVars>>

Next ==
  \/ Discard
  \/ CallGetDefaultPromptTemplate
  \/ CallProcessText
  \/ CallRankGenerations
  \/ FetchSettles
  \/ ErrorTextSettles
  \/ ReadSettles
  \/ RankFetchSettles
  \/ RankErrorTextSettles
  \/ RankJsonSettles

Spec == Init /\ [][Next]_vars

\* prompt construction alone: processText is called up to its fetch
CallWithPrompt ==
  /\ calls = <<>>
  /\ \E request \in PromptRequests : calls' = <<ProcessTextCall(request)>>
  /\ UNCHANGED <<rcalls, tmpl, cbLog, uiVars>>

NextPrompt == CallWithPrompt

SpecPrompt == Init /\ [][NextPrompt]_vars

\* cleanResponse through its only caller: processText is called and the
\* backend answers with one line whose response is a raw reply
RawPieces ==
  {<<"x">>, <<" ">>, <<BACKTICK>>, FENCE, TextLabel, prefixes[13], prefixes[2],
   <<"P","t"," ">> \o translationWord}

RawReplies == Concats(RawPieces, MaxRawPieces)

CleanRequests ==
  [text : {<<"x">>}, operation : {"grammar", "translate"},
   customPrompt : {undefined}, targetLanguage : {undefined},
   onStream : {FALSE}]

CallToClean ==
  /\ calls = <<>>
  /\ \E request \in CleanRequests : calls' = <<ProcessTextCall(request)>>
  /\ UNCHANGED <<rcalls, tmpl, cbLog, uiVars>>

RawReadSettles ==
  /\ \E k \in 1..Len(calls) :
       /\ calls[k].pc = "read"
       /\ \E ev \in {[t |-> "done"]}
                \cup (IF calls[k].received = <<>>
                      THEN {[t |-> "chunk", value |-> <<Piece(r), Newline>>] :
                              r \in RawReplies}
                      ELSE {}) :
            LET after == OnRead(calls[k], ev) IN
            /\ calls' = [calls EXCEPT ![k] = after]
            /\ cbLog' = Logged(k, calls[k], after)
  /\ UNCHANGED <<rcalls, tmpl, uiVars>>

NextClean ==
  \/ CallToClean
  \/ FetchSettles
  \/ ErrorTextSettles
  \/ RawReadSettles

SpecClean == Init /\ [][NextClean]_vars

(***************************************************************************)
(* The Home component.  A handler runs to its next await in one step; the  *)
(* code after an await runs as soon as the awaited call has settled,       *)
(* before any other event is handled.  The activations of a handler and of *)
(* the calls it made are dropped when the handler ends.                    *)
(***************************************************************************)
\* the select offers these operations
SelectOptions == {"rephrase", "translate"}

UISymbols == {Newline, DoneMember, Piece(<<"x">>)}

UIFetchOutcomes == {"reject", "ok"}

UIReplies ==
  {<<"n","o">>}
  \cup {Join(ls, <<",">>) : ls \in SeqsUpTo({"A", "B"}, MaxUIReplyLen)}

startsWithTranslate(op) == op \in {"translate", "translate-pt", "translate-en"}

\* a || b for optional strings
OrElse(a, b) == IF Truthy(a) THEN a ELSE b

Placeholder == [text |-> <<>>, error |-> FALSE, isStreaming |-> TRUE, rank |-> 0]

\* the request handleSubmit passes to processText
SubmitRequest ==
  [text |-> Trim(inputText),
   operation |-> operation,
   customPrompt |-> OrElse(Trim(systemPrompt), undefined),
   targetLanguage |-> IF startsWithTranslate(operation) THEN targetLanguage
                      ELSE undefined,
   onStream |-> TRUE]

\* a faulty variant: processText is called without await
AwaitSkipped(call) == TRUE

\* await: the code after it runs once the awaited call has settled
AwaitDone(call) == call.pc \in {"returned", "threw"}

\* a continuation is due: no other event is handled before it has run
Due ==
  \/ batch.pc = "await" /\ AwaitDone(calls[batch.call])
  \/ ranker.pc = "await" /\ AwaitDone(rcalls[ranker.call])

\* the entry handleSubmit stores for the result of a variation
Entry(result) ==
  IF result.success /\ Truthy(result.processedText)
  THEN [text |-> result.processedText, error |-> FALSE, isStreaming |-> FALSE,
        rank |-> 0]
  ELSE [text |-> OrElse(result.error, <<"Failed to generate">>), error |-> TRUE,
        isStreaming |-> FALSE, rank |-> 0]

\* a faulty variant of the onStream closure: it writes the first entry
StreamIntoFirst(newVariations, slot, partialText) ==
  [newVariations EXCEPT ![1] =
     [text |-> partialText, error |-> FALSE, isStreaming |-> TRUE, rank |-> 0]]

\* the onStream closure of variation slot: it writes its entry of
\* newVariations and publishes a copy
StreamInto(newVariations, slot, partialText) ==
  [newVariations EXCEPT ![slot] =
     [text |-> partialText, error |-> FALSE, isStreaming |-> TRUE, rank |-> 0]]

\* a faulty variant of the guard of handleSubmit: the flag is not read
NeverBusy(state) == FALSE

\* if (appState.isProcessing) return
Busy(state) == state.isProcessing

\* handleSubmit up to its first await
Submit ==
  /\ ~Due
  /\ IF \/ Busy(appState)
        \/ ~Truthy(Trim(inputText))
        \/ numVariations < 1
        \/ numVariations > MaxVariations
     THEN UNCHANGED vars
     ELSE /\ appState' = [appState EXCEPT !.isProcessing = TRUE]
          /\ hasRanked' = FALSE
          /\ variations' = <<Placeholder>>
          /\ calls' = <<[ProcessTextCall(SubmitRequest) EXCEPT !.request =
                           SubmitRequest]>>
          /\ cbLog' = <<>>
          /\ batch' = [pc |-> "await", i |-> 0, n |-> numVariations,
                       newVariations |-> <<Placeholder>>, call |-> 1,
                       request |-> SubmitRequest]
          /\ UNCHANGED <<rcalls, tmpl, inputText, operation, numVariations,
                         targetLanguage, systemPrompt, isRanking, ranker>>

\* a faulty variant of the loop condition: i < numVariations - 1
HasNextOffByOne(i, n) == i + 2 < n

\* the condition of the for loop after i++
HasNext(i, n) == i + 1 < n

\* handleSubmit after the await of processText: the entry of variation i,
\* then the next iteration or the end of the batch
SubmitResumes ==
  /\ batch.pc = "await"
  /\ AwaitDone(calls[batch.call])
  /\ IF calls[batch.call].pc = "threw"
     THEN \* catch and finally
          /\ appState' = [appState EXCEPT !.isProcessing = FALSE]
          /\ batch' = NoBatch
          /\ calls' = <<>>
          /\ cbLog' = <<>>
          /\ UNCHANGED variations
     ELSE LET stored == [batch.newVariations EXCEPT ![batch.i + 1] =
                           Entry(calls[batch.call].result)]
          IN IF HasNext(batch.i, batch.n)
             THEN /\ batch' = [batch EXCEPT !.i = @ + 1,
                                 !.newVariations = Append(stored, Placeholder),
                                 !.call = Len(calls) + 1]
                  /\ variations' = Append(stored, Placeholder)
                  /\ calls' = Append(calls, ProcessTextCall(batch.request))
                  /\ UNCHANGED <<appState, cbLog>>
             ELSE /\ batch' = NoBatch
                  /\ variations' = stored
                  /\ appState' = [appState EXCEPT !.isProcessing = FALSE]
                  /\ calls' = <<>>
                  /\ cbLog' = <<>>
  /\ UNCHANGED <<rcalls, tmpl, inputText, operation, numVariations,
                 targetLanguage, systemPrompt, isRanking, hasRanked, ranker>>

UIFetchSettles ==
  /\ ~Due
  /\ \E k \in 1..Len(calls) :
       /\ calls[k].pc = "fetch"
       /\ \E outcome \in UIFetchOutcomes :
            calls' = [calls EXCEPT ![k] = OnFetchSettled(calls[k], outcome)]
  /\ UNCHANGED <<rcalls, tmpl, cbLog, uiVars>>

\* a read of the stream of call k settles; its onStream callbacks write the
\* entry of variation k
UIReadSettles ==
  /\ ~Due
  /\ \E k \in 1..Len(calls) :
       /\ calls[k].pc = "read"
       /\ \E ev \in {[t |-> "done"], [t |-> "error"]}
                \cup {[t |-> "chunk", value |-> c] :
                        c \in SeqsUpTo(UISymbols,
                                       MaxUIWireLen - Len(calls[k].received))} :
            LET after == OnRead(calls[k], ev)
                called == Len(after.streamed) > Len(calls[k].streamed)
                written == StreamInto(batch.newVariations, k,
                                      after.streamed[Len(after.streamed)])
            IN /\ calls' = [calls EXCEPT ![k] = after]
               /\ cbLog' = Logged(k, calls[k], after)
               /\ batch' = IF called THEN [batch EXCEPT !.newVariations = written]
                           ELSE batch
               /\ variations' = IF called THEN written ELSE variations
  /\ UNCHANGED <<rcalls, tmpl, appState, inputText, operation, numVariations,
                 targetLanguage, systemPrompt, isRanking, hasRanked, ranker>>

\* variations.filter((v) => !v.error)
RECURSIVE WithoutErrors(_)
WithoutErrors(vs) ==
  IF vs = <<>> THEN <<>>
  ELSE (IF Head(vs).error THEN <<>> ELSE <<Head(vs)>>) \o WithoutErrors(Tail(vs))

\* the Rank button is rendered and enabled
RankButton ==
  /\ Len(variations) > 1
  /\ ~appState.isProcessing
  /\ \E j \in 1..Len(variations) : ~variations[j].error
  /\ ~(isRanking \/ hasRanked)

\* handleRank up to its await
Rank ==
  /\ ~Due
  /\ RankButton
  /\ LET successfulGenerations == WithoutErrors(variations)
         task == OrElse(Trim(systemPrompt),
                        getDefaultPromptTemplate(operation).value)
     IN IF isRanking \/ hasRanked \/ Len(successfulGenerations) < 2
        THEN UNCHANGED vars
        ELSE /\ isRanking' = TRUE
             /\ rcalls' = <<RankGenerationsCall(
                              [task |-> task,
                               generations |->
                                 [j \in 1..Len(successfulGenerations) |->
                                    successfulGenerations[j].text]])>>
             /\ ranker' = [pc |-> "await", call |-> 1,
                           successfulGenerations |-> successfulGenerations]
             /\ UNCHANGED <<calls, tmpl, cbLog, appState, inputText, operation,
                            numVariations, targetLanguage, systemPrompt,
                            variations, hasRanked, batch>>

\* a faulty variant of the reordering: rank: originalIndex + 1
ReorderKeepingIndex(successfulGenerations, ranking) ==
  [newRank \in 1..Len(ranking) |->
     [successfulGenerations[ranking[newRank] + 1]
        EXCEPT !.rank = ranking[newRank] + 1]]

\* rankingResult.ranking.map((originalIndex, newRank) => ({
\* ...successfulGenerations[originalIndex], rank: newRank + 1 })); the
\* positions of a sequence are the ranks
Reorder(successfulGenerations, ranking) ==
  [newRank \in 1..Len(ranking) |->
     [successfulGenerations[ranking[newRank] + 1] EXCEPT !.rank = newRank]]

\* handleRank after the await of rankGenerations
RankResumes ==
  /\ ranker.pc = "await"
  /\ AwaitDone(rcalls[ranker.call])
  /\ LET rankingResult == rcalls[ranker.call].result IN
     IF rcalls[ranker.call].pc = "returned" /\ rankingResult.success
     THEN /\ variations' = Reorder(ranker.successfulGenerations,
                                   rankingResult.ranking)
          /\ hasRanked' = TRUE
     ELSE UNCHANGED <<variations, hasRanked>>
  /\ isRanking' = FALSE
  /\ ranker' = NoRanker
  /\ rcalls' = <<>>
  /\ UNCHANGED <<calls, tmpl, cbLog, appState, inputText, operation,
                 numVariations, targetLanguage, systemPrompt, batch>>

UIRankFetchSettles ==
  /\ ~Due
  /\ \E k \in 1..Len(rcalls) :
       /\ rcalls[k].pc = "fetch"
       /\ \E outcome \in UIFetchOutcomes :
            rcalls' = [rcalls EXCEPT ![k] = OnRankFetchSettled(rcalls[k], outcome)]
  /\ UNCHANGED <<calls, tmpl, cbLog, uiVars>>

UIRankJsonSettles ==
  /\ ~Due
  /\ \E k \in 1..Len(rcalls) :
       /\ rcalls[k].pc = "json"
       /\ \E r \in UIReplies :
            rcalls' = [rcalls EXCEPT ![k] =
                         OnRankJson(rcalls[k], [t |-> "json", value |-> r])]
  /\ UNCHANGED <<calls, tmpl, cbLog, uiVars>>

\* the controls; each is disabled while a batch runs
SetInputText ==
  /\ ~Due
  /\ ~appState.isProcessing
  /\ \E t \in {<<" ">>, <<"x">>} : inputText' = t
  /\ UNCHANGED <<libVars, appState, operation, numVariations, targetLanguage,
                 systemPrompt, variations, isRanking, hasRanked, batch, ranker>>

\* the select changes the operation; the effect on [operation] then loads
\* the default template and the target language
SetOperation ==
  /\ ~Due
  /\ ~appState.isProcessing
  /\ \E op \in SelectOptions \ {operation} :
       /\ operation' = op
       /\ systemPrompt' = getDefaultPromptTemplate(op).value
       /\ targetLanguage' = CASE op = "translate-pt" ->
                                   <<"P","o","r","t","u","g","u","e","s","e">>
                              [] op \in {"translate-en", "translate"} -> English
                              [] OTHER -> targetLanguage
  /\ UNCHANGED <<libVars, appState, inputText, numVariations, variations,
                 isRanking, hasRanked, batch, ranker>>

\* the variations input: parseInt(e.target.value) || 2, for the typed
\* numbers of the set values
TypeNumVariations(values) ==
  /\ ~Due
  /\ ~appState.isProcessing
  /\ \E typed \in values :
       numVariations' = IF typed = 0 THEN 2 ELSE typed
  /\ UNCHANGED <<libVars, appState, inputText, operation, targetLanguage,
                 systemPrompt, variations, isRanking, hasRanked, batch, ranker>>

SetNumVariations == TypeNumVariations({0, 1, MaxVariations + 1})

SetSystemPrompt ==
  /\ ~Due
  /\ ~appState.isProcessing
  /\ \E p \in {<<>>} : systemPrompt' = p
  /\ UNCHANGED <<libVars, appState, inputText, operation, numVariations,
                 targetLanguage, variations, isRanking, hasRanked, batch, ranker>>

handleResetPrompt ==
  /\ ~Due
  /\ ~appState.isProcessing
  /\ systemPrompt' = getDefaultPromptTemplate(operation).value
  /\ UNCHANGED <<libVars, appState, inputText, operation, numVariations,
                 targetLanguage, variations, isRanking, hasRanked, batch, ranker>>

NextUI ==
  \/ Submit
  \/ SubmitResumes
  \/ UIFetchSettles
  \/ UIReadSettles
  \/ Rank
  \/ RankResumes
  \/ UIRankFetchSettles
  \/ UIRankJsonSettles
  \/ SetInputText
  \/ SetOperation
  \/ SetNumVariations
  \/ SetSystemPrompt
  \/ handleResetPrompt

SpecUI == Init /\ [][NextUI]_vars

\* the batches of handleSubmit alone, of one, two and three variations
SetNumVariationsBatch == TypeNumVariations({0, 1, 3, MaxVariations + 1})

NextBatch ==
  \/ Submit
  \/ SubmitResumes
  \/ UIFetchSettles
  \/ UIReadSettles
  \/ SetInputText
  \/ SetNumVariationsBatch

SpecBatch == Init /\ [][NextBatch]_vars

\* handleRank alone: the component holds the list of a finished batch, and
\* the backend answers the ranking with the letters of up to MaxGenerations
\* candidates
FinishedEntries ==
  {Entry(Success(<<"a">>)), Entry(Success(<<"b">>)), Entry(Success(<<"c">>)),
   Entry(Failure(<<"Failed to fetch">>))}

RankingReplies ==
  {<<"n","o">>}
  \cup {Join(ls, <<",">>) : ls \in SeqsUpTo({"A", "B", "C"}, MaxGenerations)}

InitRank ==
  /\ calls = <<>>
  /\ rcalls = <<>>
  /\ tmpl = NoTemplate
  /\ cbLog = <<>>
  /\ appState = [modelLoaded |-> TRUE, isProcessing |-> FALSE,
                 currentOperation |-> "rephrase"]
  /\ inputText = <<"x">>
  /\ operation = "rephrase"
  /\ numVariations = 1
  /\ targetLanguage = English
  /\ systemPrompt = rephrasePrompt
  /\ variations \in SeqsUpTo(FinishedEntries, MaxGenerations)
  /\ isRanking = FALSE
  /\ hasRanked = FALSE
  /\ batch = NoBatch
  /\ ranker = NoRanker

RankingJsonSettles ==
  /\ ~Due
  /\ \E k \in 1..Len(rcalls) :
       /\ rcalls[k].pc = "json"
       /\ \E r \in RankingReplies :
            rcalls' = [rcalls EXCEPT ![k] =
                         OnRankJson(rcalls[k], [t |-> "json", value |-> r])]
  /\ UNCHANGED <<calls, tmpl, cbLog, uiVars>>

NextRank ==
  \/ Rank
  \/ RankResumes
  \/ UIRankFetchSettles
  \/ RankingJsonSettles

SpecRank == InitRank /\ [][NextRank]_vars

(***************************************************************************)
(* Properties of rankGenerations.                                          *)
(***************************************************************************)
\* C1: whenever rankGenerations returns success for N >= 1 candidates, the
\* ranking has length N and contains every index of 0..N-1 exactly once.
C1_RankingIsPermutation ==
  \A k \in 1..Len(rcalls) :
    LET c == rcalls[k]
        N == Len(c.request.generations)
    IN (c.pc = "returned" /\ c.result.success /\ N >= 1) =>
         /\ Len(c.result.ranking) = N
         /\ {c.result.ranking[j] : j \in 1..N} = 0..(N - 1)

(***************************************************************************)
(* Properties of a batch of handleSubmit.                                  *)
(***************************************************************************)
\* C2: the step that ends a batch of n variations leaves exactly n entries
\* in the variations list; all n calls were issued, the entry at position j
\* is the error entry of call j exactly when call j failed, and no entry is
\* left streaming.
C2_BatchKeepsEveryVariation ==
  [][(batch.pc = "await" /\ batch'.pc = "idle") =>
       /\ Len(variations') = batch.n
       /\ Len(calls) = batch.n
       /\ \A j \in 1..batch.n :
            /\ calls[j].pc = "returned"
            /\ variations'[j].error = ~calls[j].result.success
            /\ ~variations'[j].isStreaming
            /\ ~calls[j].result.success =>
                 variations'[j].text = calls[j].result.error
            /\ calls[j].result.success =>
                 variations'[j].text = calls[j].result.processedText]_vars

\* a batch of three has ended: the second call failed, the others succeeded
C2_FailedSecondOfThree ==
  /\ batch.pc = "idle"
  /\ ~appState.isProcessing
  /\ numVariations = 3
  /\ Len(variations) = 3
  /\ ~variations[1].error /\ ~variations[1].isStreaming
  /\ variations[2].error /\ ~variations[2].isStreaming
  /\ ~variations[3].error /\ ~variations[3].isStreaming

\* C4: within a batch every call but the last has returned, so at most one
\* stream is open, and the onStream callbacks are made in the order of the
\* variations.
C4_CallsAreSequential ==
  /\ \A k \in 1..Len(calls) : k < Len(calls) => calls[k].pc = "returned"
  /\ Cardinality({k \in 1..Len(calls) :
                    calls[k].pc \in {"fetch", "text", "read"}}) <= 1
  /\ \A a, b \in 1..Len(cbLog) : a < b => cbLog[a] <= cbLog[b]

\* the third call of a batch streams after the first two have streamed
C4_ThirdStreamAfterSecond ==
  /\ Len(calls) = 3
  /\ calls[3].pc = "read"
  /\ cbLog = <<1, 2, 3>>

(***************************************************************************)
(* Properties of processText.                                              *)
(***************************************************************************)
RECURSIVE NonEmptyOnes(_)
NonEmptyOnes(ds) ==
  IF ds = <<>> THEN <<>>
  ELSE (IF Head(ds) = <<>> THEN <<>> ELSE <<Head(ds)>>) \o NonEmptyOnes(Tail(ds))

RECURSIVE Flatten(_)
Flatten(ds) == IF ds = <<>> THEN <<>> ELSE Head(ds) \o Flatten(Tail(ds))

C5_SuccessIsCleanedAndNonEmpty ==
  \A k \in 1..Len(calls) :
    LET c == calls[k] IN
    (c.pc = "returned" /\ c.result.success) =>
      /\ c.result.processedText =
           cleanResponse(c.accumulatedText, c.request.operation)
      /\ Truthy(c.result.processedText)
      /\ Truthy(Trim(c.result.processedText))

\* a success whose text differs from the accumulated text
C5_CleanedSuccess ==
  \E k \in 1..Len(calls) :
    /\ calls[k].pc = "returned"
    /\ calls[k].result.success
    /\ calls[k].result.processedText # calls[k].accumulatedText

\* C6: processText called with a text that is empty after trimming has
\* returned a failure with an error message and has not called fetch.
C6_EmptyInputFailsBeforeFetch ==
  \A k \in 1..Len(calls) :
    LET c == calls[k] IN
    ~Truthy(Trim(c.request.text)) =>
      /\ c.pc = "returned"
      /\ ~c.result.success
      /\ Truthy(c.result.error)
      /\ c.fetched = 0

\* a white-space text with a custom prompt has failed
C6_BlankTextWithCustomPrompt ==
  \E k \in 1..Len(calls) :
    /\ calls[k].request.text = <<" ">>
    /\ calls[k].request.customPrompt = TEXT_PH
    /\ calls[k].pc = "returned"
    /\ ~calls[k].result.success

\* C7: processText and rankGenerations never throw; after a rejected
\* fetch, a status that is not ok, a missing body, a failed read, a
\* reply body that is no JSON (rankGenerations) or an empty reply the
\* result is a failure, and every failure carries an error message.
C7_FaultsBecomeFailures ==
  /\ \A k \in 1..Len(calls) :
       LET c == calls[k] IN
       /\ c.pc # "threw"
       /\ c.pc = "returned" =>
            /\ c.result.settled
            /\ c.faults # {} => ~c.result.success
            /\ (c.fetched = 1 /\ ~Truthy(Trim(c.accumulatedText))) =>
                 ~c.result.success
            /\ ~c.result.success => Truthy(c.result.error)
  /\ \A k \in 1..Len(rcalls) :
       LET c == rcalls[k] IN
       /\ c.pc # "threw"
       /\ c.pc = "returned" =>
            /\ c.result.settled
            /\ c.faults # {} => ~c.result.success
            /\ ~c.result.success => Truthy(c.result.error)

\* C7 as stated: in addition, a line of the stream that JSON.parse rejects
\* makes the result a failure.
C7_EveryFaultIsAFailure ==
  /\ C7_FaultsBecomeFailures
  /\ \A k \in 1..Len(calls) :
       (calls[k].pc = "returned" /\ calls[k].parseErrors > 0) =>
         ~calls[k].result.success

\* a read failed after a callback had been made
C7_ReadErrorMidStream ==
  \E k \in 1..Len(calls) :
    /\ calls[k].pc = "returned"
    /\ "read" \in calls[k].faults
    /\ Len(calls[k].streamed) >= 1
    /\ ~calls[k].result.success

(***************************************************************************)
(* Properties of the prompt.                                               *)
(***************************************************************************)
\* C8: for an operation outside the supported set getDefaultPromptTemplate
\* does not throw: it returns a value to its caller.
C8_UnsupportedIsReturned ==
  tmpl.operation \in OperationType \ Supported => ~tmpl.outcome.threw

\* C9 as stated: a request for an operation outside the supported set has
\* returned a failure and has not called fetch, with or without a custom
\* prompt.
C9_UnsupportedAlwaysFails ==
  \A k \in 1..Len(calls) :
    LET c == calls[k] IN
    c.request.operation \notin Supported =>
      c.pc = "returned" /\ ~c.result.success /\ c.fetched = 0

\* C9: a request for an operation outside the supported set, without a
\* custom prompt or with one that is white space only, has returned a
\* failure and has not called fetch.
C9_UnsupportedWithoutCustomPromptFails ==
  \A k \in 1..Len(calls) :
    LET c == calls[k] IN
    (/\ c.request.operation \notin Supported
     /\ ~(Truthy(c.request.customPrompt) /\ Truthy(Trim(c.request.customPrompt)))) =>
      c.pc = "returned" /\ ~c.result.success /\ c.fetched = 0

\* an unsupported operation with a non-empty text and a blank custom prompt
\* has failed in the prompt block
C9_UnsupportedBlankCustomPrompt ==
  \E k \in 1..Len(calls) :
    /\ calls[k].request.operation = "simplify"
    /\ calls[k].request.text = <<"x">>
    /\ calls[k].request.customPrompt = <<" ">>
    /\ calls[k].pc = "returned"
    /\ calls[k].result.error =
         <<"Error generating prompt: ", "Unsupported operation: ", "simplify">>

\* the number of occurrences of p in s, counted from the left without
\* overlap
RECURSIVE CountFrom(_, _, _)
CountFrom(s, p, i) ==
  LET at == IndexFrom(s, p, i) IN
  IF at = 0 THEN 0 ELSE 1 + CountFrom(s, p, at + Len(p))

\* C10: the prompt built from a custom template with k occurrences of
\* {TEXT} holds k copies of the text, and a template without placeholders
\* is the prompt unchanged.
C10_EveryOccurrenceBecomesACopy ==
  \A k \in 1..Len(calls) :
    LET c == calls[k]
        template == c.request.customPrompt
    IN (c.pc = "fetch" /\ Truthy(template) /\ Truthy(Trim(template))) =>
         /\ CountFrom(c.body.prompt, c.request.text, 1)
              >= CountFrom(template, TEXT_PH, 1)
         /\ (CountFrom(template, TEXT_PH, 1) = 0
             /\ CountFrom(template, LANGUAGE_PH, 1) = 0) =>
              c.body.prompt = template

\* the template with each occurrence of a placeholder replaced, in one pass
\* from the left, by its value as it is
RECURSIVE Verbatim(_, _, _)
Verbatim(template, text, language) ==
  IF template = <<>> THEN <<>>
  ELSE IF StartsWith(template, TEXT_PH)
  THEN text \o Verbatim(Drop(template, Len(TEXT_PH) + 1), text, language)
  ELSE IF StartsWith(template, LANGUAGE_PH)
  THEN language \o Verbatim(Drop(template, Len(LANGUAGE_PH) + 1), text, language)
  ELSE <<Head(template)>> \o Verbatim(Tail(template), text, language)

\* the two replaceAll calls in the other order
LanguageFirst(template, text, language) ==
  replaceAll(replaceAll(template, LANGUAGE_PH, language), TEXT_PH, text)

\* C11: the prompt built from a default template is the template with each
\* placeholder occurrence replaced by its value verbatim, and it is what the
\* substitution of {LANGUAGE} before {TEXT} yields.
C11_SubstitutionIsVerbatimInAnyOrder ==
  \A k \in 1..Len(calls) :
    LET c == calls[k]
        template == getDefaultPromptTemplate(c.request.operation).value
        language == OrElse(c.request.targetLanguage, English)
    IN (c.pc = "fetch" /\ ~Truthy(c.request.customPrompt)) =>
         /\ c.body.prompt = Verbatim(template, c.request.text, language)
         /\ c.body.prompt = LanguageFirst(template, c.request.text, language)

\* C12: the prompt built from a custom template T is the prompt the single
\* substitution pass of a default template builds from T.
C12_CustomTemplateGetsTheDefaultPass ==
  \A k \in 1..Len(calls) :
    LET c == calls[k]
        T == c.request.customPrompt
    IN (c.pc = "fetch" /\ Truthy(T) /\ Truthy(Trim(T))) =>
         c.body.prompt = Substitute(T, c.request.text, c.request.targetLanguage)

(***************************************************************************)
(* Properties of cleanResponse.                                            *)
(***************************************************************************)
\* the index of the first of the fixed labels t starts with; 0 when none
FirstLabel(t) ==
  LET matching == {i \in 1..Len(prefixes) : StartsWith(t, prefixes[i])}
  IN IF matching = {} THEN 0
     ELSE CHOOSE i \in matching : \A j \in matching : i <= j

\* C13: on a reply without grave accents, a success of processText carries
\* the trimmed reply with exactly one leading label cut: a leading
\* <Word> translation: label when there is one, else the first matching
\* label of the fixed list, else nothing; what follows the label is kept,
\* also when it starts with another label.
C13_ExactlyOneLabelRemoved ==
  \A k \in 1..Len(calls) :
    LET c == calls[k]
        t == Trim(c.accumulatedText)
        m == TranslationPrefixLen(t)
        i == FirstLabel(t)
    IN (c.pc = "returned" /\ c.result.success
        /\ BACKTICK \notin Range(c.accumulatedText)) =>
         c.result.processedText =
           IF m > 0 THEN Trim(Drop(t, m + 1))
           ELSE IF i > 0 THEN Trim(Drop(t, Len(prefixes[i]) + 1))
           ELSE t

\* two stacked labels: the first is cut, the second is kept
C13_StackedLabels ==
  \E k \in 1..Len(calls) :
    /\ calls[k].pc = "returned"
    /\ calls[k].result.success
    /\ calls[k].accumulatedText = TextLabel \o prefixes[13] \o <<"x">>
    /\ calls[k].result.processedText = prefixes[13] \o <<"x">>

\* C14: cleaning the text of a success of processText once more leaves it
\* as it is.
C14_CleanIsIdempotent ==
  \A k \in 1..Len(calls) :
    LET c == calls[k] IN
    (c.pc = "returned" /\ c.result.success) =>
      cleanResponse(c.result.processedText, c.request.operation)
        = c.result.processedText

(***************************************************************************)
(* Properties of the ranking reply.                                        *)
(***************************************************************************)
\* the permutations of 0..N-1 as sequences of length N
PermutationsOf(N) ==
  {q \in [1..N -> 0..(N - 1)] : \A a, b \in 1..N : q[a] = q[b] => a = b}

\* the reply that lists the letters of the indices of q between brackets
Bracketed(q) ==
  <<"[">> \o Join([j \in 1..Len(q) |-> Letters[q[j] + 1]], <<",">>) \o <<"]">>

\* C15: for N >= 2 candidates and a permutation q of 0..N-1, the reply
\* that is the bracketed list of the letters of q makes rankGenerations
\* return success with ranking q.
C15_RankingRoundTrip ==
  \A k \in 1..Len(rcalls) :
    LET c == rcalls[k]
        N == Len(c.request.generations)
    IN (c.pc = "returned" /\ N >= 2) =>
         \A q \in PermutationsOf(N) :
           c.reply = Bracketed(q) =>
             c.result.success /\ c.result.ranking = q

\* three candidates and the reply [C,A,B]
C15_ReplyCAB ==
  \E k \in 1..Len(rcalls) :
    /\ Len(rcalls[k].request.generations) = 3
    /\ rcalls[k].reply = <<"[", "C", ",", "A", ",", "B", "]">>
    /\ rcalls[k].result.success
    /\ rcalls[k].result.ranking = <<2, 0, 1>>

NoRankingFound == <<"Could not extract ranking from response">>

\* C16: for 2 or more candidates and a non-empty reply, the failure is
\* Could not extract ranking from response exactly when the reply holds no
\* upper-case letter, a single letter being the shortest run.
C16_NoRankingFoundIffNoRun ==
  \A k \in 1..Len(rcalls) :
    LET c == rcalls[k] IN
    (c.pc = "returned" /\ Len(c.request.generations) >= 2 /\ Truthy(c.reply)) =>
      ((~c.result.success /\ c.result.error = NoRankingFound)
         <=> Range(c.reply) \cap UpperCase = {})

\* two candidates and the reply no
C16_ReplyWithoutLetters ==
  \E k \in 1..Len(rcalls) :
    /\ Len(rcalls[k].request.generations) = 2
    /\ rcalls[k].reply = <<"n", "o">>
    /\ rcalls[k].result.error = NoRankingFound

\* the letters of the run the ranking is read from that name a candidate
InRangeLetters(c) ==
  LET group == RankingMatch(c.reply).group IN
  {i \in 1..Len(group) :
     /\ group[i] \in UpperCase
     /\ \E j \in 1..Len(c.request.generations) : Letters[j] = group[i]}

\* C17: for N >= 2 candidates and a reply with a run of letters, when the
\* number of letters that name a candidate is not N, less or more, the
\* result is the failure Incomplete ranking with N and that number.
C17_WrongCountIsIncomplete ==
  \A k \in 1..Len(rcalls) :
    LET c == rcalls[k]
        N == Len(c.request.generations)
        got == Cardinality(InRangeLetters(c))
    IN (/\ c.pc = "returned" /\ N >= 2 /\ Truthy(c.reply)
        /\ Range(c.reply) \cap UpperCase # {}
        /\ got # N) =>
         /\ ~c.result.success
         /\ c.result.error = <<"Incomplete ranking: expected ", ToString(N),
                               " items, got ", ToString(got)>>

\* three candidates and the reply [A,B]
C17_ReplyABOverThree ==
  \E k \in 1..Len(rcalls) :
    /\ Len(rcalls[k].request.generations) = 3
    /\ rcalls[k].reply = <<"[", "A", ",", "B", "]">>
    /\ rcalls[k].result.error =
         <<"Incomplete ranking: expected ", "3", " items, got ", "2">>

\* C18: rankGenerations called with fewer than 2 candidates has returned
\* success with ranking [0] and has not called fetch.
C18_ShortCircuit ==
  \A k \in 1..Len(rcalls) :
    LET c == rcalls[k] IN
    Len(c.request.generations) < 2 =>
      /\ c.pc = "returned"
      /\ c.result.success
      /\ c.result.ranking = <<0>>
      /\ c.fetched = 0

\* one candidate
C18_OneCandidate ==
  \E k \in 1..Len(rcalls) :
    /\ Len(rcalls[k].request.generations) = 1
    /\ rcalls[k].result.ranking = <<0>>
    /\ rcalls[k].fetched = 0

\* C19: for 2 or more candidates rankGenerations calls fetch once, with
\* stream false, and not again after a failure.
C19_OneCallWithoutStreaming ==
  \A k \in 1..Len(rcalls) :
    LET c == rcalls[k] IN
    Len(c.request.generations) >= 2 =>
      /\ c.fetched = 1
      /\ ~c.body.stream

\* a failure after the one call
C19_FailedAfterOneCall ==
  \E k \in 1..Len(rcalls) :
    /\ Len(rcalls[k].request.generations) = 2
    /\ rcalls[k].pc = "returned"
    /\ ~rcalls[k].result.success
    /\ "network" \in rcalls[k].faults
    /\ rcalls[k].fetched = 1

(***************************************************************************)
(* Properties of a reply whose status is not ok.                           *)
(***************************************************************************)
\* s holds p as a contiguous part
Holds(s, p) == p = <<>> \/ IndexFrom(s, p, 1) > 0

SeedRequests ==
  [text : {<<" ">>, <<"x">>},
   operation : {"rephrase", "translate"},
   customPrompt : {undefined},
   seed : 0..MaxSeed,
   targetLanguage : {undefined},
   onStream : {FALSE}]

CallWithSeed ==
  /\ Len(calls) < 2
  /\ \E request \in SeedRequests :
       calls' = Append(calls, ProcessTextCall(request))
  /\ UNCHANGED <<rcalls, tmpl, cbLog, uiVars>>

NextSeed == CallWithSeed

SpecSeed == Init /\ [][NextSeed]_vars

\* the requests differ in their seed and in nothing else
DifferOnlyInSeed(r1, r2) ==
  /\ r1.seed # r2.seed
  /\ [r1 EXCEPT !.seed = 0] = [r2 EXCEPT !.seed = 0]

\* C21: two calls of processText whose requests differ only in the seed
\* send different bodies to the backend, and two calls with equal requests
\* send equal bodies.
C21_SeedReachesTheBackend ==
  \A i, j \in 1..Len(calls) :
    (calls[i].fetched = 1 /\ calls[j].fetched = 1) =>
      /\ DifferOnlyInSeed(calls[i].request, calls[j].request)
           => calls[i].body # calls[j].body
      /\ calls[i].request = calls[j].request
           => calls[i].body = calls[j].body

(***************************************************************************)
(* The number of backend calls of one activation of processText.           *)
(***************************************************************************)
\* s has a character that is no white space
HasInk(s) == \E i \in 1..Len(s) : s[i] \notin WhiteSpace

\* C22: an activation of processText calls fetch exactly once when the
\* text is not blank and a prompt exists for the request (a custom prompt
\* that is not blank, or a supported operation), and never otherwise; no
\* failure of the transport, empty response or empty cleaned text leads to
\* a second call.
C22_AtMostOneBackendCall ==
  \A k \in 1..Len(calls) :
    LET c == calls[k]
        resolves == \/ (c.request.customPrompt # undefined
                        /\ HasInk(c.request.customPrompt))
                    \/ c.request.operation \in Supported
    IN /\ c.fetched \in {0, 1}
       /\ c.fetched = 1 <=> (HasInk(c.request.text) /\ resolves)

\* the cleaned text was empty and the backend was called once
C22_EmptyCleanedAfterOneCall ==
  \E k \in 1..Len(calls) :
    /\ calls[k].pc = "returned"
    /\ calls[k].result.error =
         <<"Model generation failed: empty result after cleaning">>
    /\ calls[k].fetched = 1

(***************************************************************************)
(* Properties of handleRank.                                               *)
(***************************************************************************)
\* C23: the step on which handleRank resumes with a successful ranking
\* leaves, at every position k, the entry that the list without its failed
\* entries held at the index the ranking names for k, with rank k; the list
\* has one entry for each successful variation, so the ranks are 1..N.
C23_RankedListFollowsTheOrder ==
  [][(ranker.pc = "await" /\ ranker'.pc = "idle"
      /\ rcalls[ranker.call].result.success) =>
       LET order == rcalls[ranker.call].result.ranking
           successful == WithoutErrors(variations)
       IN /\ hasRanked'
          /\ Len(variations') = Len(successful)
          /\ Len(variations') = Len(order)
          /\ \A k \in 1..Len(order) :
               /\ variations'[k].text = successful[order[k] + 1].text
               /\ variations'[k].rank = k
               /\ ~variations'[k].error
               /\ ~variations'[k].isStreaming]_vars

\* the list after the ranking C,A,B of three successful variations a, b, c
C23_RankedCAB ==
  /\ hasRanked
  /\ Len(variations) = 3
  /\ variations[1].text = <<"c">> /\ variations[1].rank = 1
  /\ variations[2].text = <<"a">> /\ variations[2].rank = 2
  /\ variations[3].text = <<"b">> /\ variations[3].rank = 3

(***************************************************************************)
(* The transformers.js variant of the library and of handleSubmit: the     *)
(* seed of a request sets the temperature of the generation.               *)
(* Temperatures and top_p are in hundredths.                               *)
(***************************************************************************)
\* request.seed === undefined
NoSeed == -1

\* a faulty variant: the seed is reduced modulo 2
TemperatureOfParity(seed) ==
  IF seed = NoSeed THEN 70 ELSE 60 + ((seed % 2) * 100) \div 20

\* generationConfig.temperature: 0.7, or 0.6 + (request.seed % 10) / 20
\* when a seed is given
TemperatureOf(seed) ==
  IF seed = NoSeed THEN 70 ELSE 60 + ((seed % 10) * 100) \div 20

\* processText of the variant from its call to the await of model.generate
\* or its return
GenerateCall(request) ==
  LET call == [fn |-> "processText", pc |-> "called", request |-> request,
               generationConfig |-> [max_new_tokens |-> 0, do_sample |-> FALSE,
                                     temperature |-> 0, top_p |-> 0],
               result |-> NoResult]
  IN IF ~Truthy(Trim(request.text))
     THEN ReturnFailure(call, <<"Please enter some text to process">>)
     ELSE [call EXCEPT !.pc = "generate",
             !.generationConfig =
                [max_new_tokens |-> 512, do_sample |-> TRUE,
                 temperature |-> TemperatureOf(request.seed), top_p |-> 90]]

\* the request of iteration i of the loop of handleSubmit
SeededRequest(text, i) ==
  [text |-> text, operation |-> "rephrase", customPrompt |-> undefined,
   seed |-> i]

\* handleSubmit of the variant up to its first await; the text and the
\* number of variations are read from the controls
SubmitSeeded ==
  /\ batch.pc = "idle"
  /\ calls = <<>>
  /\ \E text \in {<<" ">>, <<"x">>}, typed \in 0..(MaxVariations + 1) :
       LET n == IF typed = 0 THEN 2 ELSE typed IN
       IF \/ ~appState.modelLoaded \/ appState.isProcessing
          \/ ~Truthy(Trim(text))
          \/ n < 1 \/ n > MaxVariations
       THEN UNCHANGED vars
       ELSE /\ appState' = [appState EXCEPT !.isProcessing = TRUE]
            /\ variations' = <<>>
            /\ calls' = <<GenerateCall(SeededRequest(Trim(text), 0))>>
            /\ batch' = [NoBatch EXCEPT !.pc = "await", !.n = n, !.call = 1]
            /\ UNCHANGED <<rcalls, tmpl, cbLog, inputText, operation,
                           numVariations, targetLanguage, systemPrompt,
                           isRanking, hasRanked, ranker>>

\* await model.generate(generationConfig) settles; the reply of the model
\* is the text x, which the cleaning of the variant leaves as it is
GenerateSettles ==
  /\ ~Due
  /\ \E k \in 1..Len(calls) :
       /\ calls[k].pc = "generate"
       /\ \E outcome \in {"resolve", "reject"} :
            calls' = [calls EXCEPT ![k] =
              IF outcome = "reject"
              THEN ReturnFailure(calls[k], <<"generate failed">>)
              ELSE [calls[k] EXCEPT !.pc = "returned",
                                    !.result = Success(<<"x">>)]]
  /\ UNCHANGED <<rcalls, tmpl, cbLog, uiVars>>

\* handleSubmit of the variant after the await of processText: the card of
\* variation i, then the next iteration with seed i + 1 or the end
SeededResumes ==
  /\ batch.pc = "await"
  /\ AwaitDone(calls[batch.call])
  /\ variations' = Append(variations, Entry(calls[batch.call].result))
  /\ IF HasNext(batch.i, batch.n)
     THEN /\ batch' = [batch EXCEPT !.i = @ + 1, !.call = Len(calls) + 1]
          /\ calls' = Append(calls,
                        GenerateCall(SeededRequest(calls[1].request.text,
                                                   batch.i + 1)))
          /\ UNCHANGED appState
     ELSE /\ batch' = NoBatch
          /\ appState' = [appState EXCEPT !.isProcessing = FALSE]
          /\ calls' = <<>>
  /\ UNCHANGED <<rcalls, tmpl, cbLog, inputText, operation, numVariations,
                 targetLanguage, systemPrompt, isRanking, hasRanked, ranker>>

NextSeeded ==
  \/ SubmitSeeded
  \/ GenerateSettles
  \/ SeededResumes

SpecSeeded == Init /\ [][NextSeeded]_vars

\* C24: in the variant that derives the temperature from the seed,
\* variation k of a batch (counted from 1) is generated with seed k - 1 and
\* temperature 0.6 + 0.05 * (k - 1); the temperature is a function of the
\* seed modulo 10; the variations of a batch have pairwise distinct
\* temperatures.
C24_TemperatureFollowsTheSeed ==
  /\ \A k \in 1..Len(calls) :
       /\ calls[k].request.seed = k - 1
       /\ calls[k].generationConfig.temperature = 60 + 5 * (k - 1)
  /\ \A k, j \in 1..Len(calls) :
       k # j => calls[k].generationConfig.temperature
                  # calls[j].generationConfig.temperature
  /\ \A s \in 0..(3 * 10) :
       TemperatureOf(s) = TemperatureOf(s % 10)

\* the fifth variation of a batch is being generated at temperature 0.8
C24_FifthVariation ==
  /\ Len(calls) = 5
  /\ calls[5].pc = "generate"
  /\ calls[5].request.seed = 4
  /\ calls[5].generationConfig.temperature = 80

(***************************************************************************)
(* Properties of the letters outside the candidates.                       *)
(***************************************************************************)
\* the 0-based indices of the characters of group that name one of n
\* candidates, in the order of group
RECURSIVE OrderOf(_, _)
OrderOf(group, n) ==
  IF group = <<>> THEN <<>>
  ELSE (IF \E j \in 1..n : Letters[j] = Head(group)
        THEN <<(CHOOSE j \in 1..n : Letters[j] = Head(group)) - 1>>
        ELSE <<>>)
       \o OrderOf(Tail(group), n)

\* C25: for N >= 2 candidates and a reply with a run of letters, the
\* letters that name no candidate are dropped before the count is tested:
\* when the letters that name a candidate are N, the result is success and
\* the ranking is their indices in the order of the reply, whatever other
\* letters the run holds.
C25_OutOfRangeLettersAreDropped ==
  \A k \in 1..Len(rcalls) :
    LET c == rcalls[k]
        N == Len(c.request.generations)
        order == OrderOf(RankingMatch(c.reply).group, N)
    IN (/\ c.pc = "returned" /\ N >= 2 /\ Truthy(c.reply)
        /\ Range(c.reply) \cap UpperCase # {}
        /\ Len(order) = N) =>
         /\ c.result.success
         /\ c.result.ranking = order

\* two candidates and the reply [A,B,Z]
C25_ReplyABZOverTwo ==
  \E k \in 1..Len(rcalls) :
    /\ Len(rcalls[k].request.generations) = 2
    /\ rcalls[k].reply = <<"[", "A", ",", "B", ",", "Z", "]">>
    /\ rcalls[k].result.success
    /\ rcalls[k].result.ranking = <<0, 1>>

(***************************************************************************)
(* Properties of the accumulated text against the lines of the stream.     *)
(***************************************************************************)
\* the responses of the lines that are JSON, one after the other
RECURSIVE DeltasOf(_)
DeltasOf(lines) ==
  IF lines = <<>> THEN <<>>
  ELSE (IF ParseJSON(Head(lines)).threw THEN <<>> ELSE ResponseOf(Head(lines)))
       \o DeltasOf(Tail(lines))

\* C26: when the stream has ended without an error, the accumulated text
\* is the concatenation of the responses of all the JSON lines the backend
\* sent, the lines behind a done marker and a last line without a newline
\* included, however the lines were cut into chunks.
C26_TextIsEveryDelta ==
  \A k \in 1..Len(calls) :
    LET c == calls[k] IN
    (c.pc = "returned" /\ c.status = "200" /\ c.faults = {}) =>
      c.accumulatedText = DeltasOf(Split(c.received, <<>>))

(***************************************************************************)
(* Properties of a ranking that is pending when a batch starts.            *)
(***************************************************************************)
\* C27: the result of a ranking is applied only to the list it was
\* computed from: while a batch runs the displayed list is the list of
\* that batch and hasRanked is false, and whenever hasRanked is true the
\* displayed entries are ranked ones, entry j with rank j.
C27_RankingAppliesToItsOwnList ==
  /\ batch.pc = "await" =>
       /\ variations = batch.newVariations
       /\ ~hasRanked
  /\ hasRanked =>
       \A j \in 1..Len(variations) : variations[j].rank = j

(***************************************************************************)
(* Properties of the isProcessing flag.                                    *)
(***************************************************************************)
\* C28: isProcessing is true exactly while a batch runs.  While it is
\* true no step starts a batch anew: the number of variations of the batch
\* stays, its loop index stays or moves on by one, an activation of
\* processText that has left its fetch is never at a fetch again, and a new
\* activation is made only by the continuation of the batch itself.  The
\* step that ends the batch resets the flag.
C28_OneBatchAtATime ==
  /\ [](appState.isProcessing <=> batch.pc = "await")
  /\ [](batch.pc = "await" => Len(calls) = batch.i + 1)
  /\ [][(appState.isProcessing /\ appState'.isProcessing) =>
          /\ batch'.n = batch.n
          /\ batch'.i \in {batch.i, batch.i + 1}
          /\ \A k \in 1..Len(calls) :
               calls[k].pc # "fetch" => calls'[k].pc # "fetch"
          /\ Len(calls') > Len(calls) =>
               /\ AwaitDone(calls[batch.call])
               /\ batch'.i = batch.i + 1]_vars
  /\ [][(batch.pc = "await" /\ batch'.pc = "idle") =>
          ~appState'.isProcessing]_vars

\* a batch of two has ended with a failure and a success, and the flag is
\* reset
C28_FlagResetAfterFailure ==
  /\ ~appState.isProcessing
  /\ batch.pc = "idle"
  /\ Len(variations) = 2
  /\ variations[1].error
  /\ ~variations[2].error
  /\ ~variations[2].isStreaming

(***************************************************************************)
(* Properties of the streaming entry of a batch.                           *)
(***************************************************************************)
\* C29: an entry of the displayed list that is streaming is the last entry
\* of the list and a batch is running, so at most one entry streams, every
\* earlier entry is final, and no entry streams once the batch has ended;
\* a step within iteration i of a batch, the streaming updates among them,
\* leaves the entries before entry i of the batch's list as they were, and
\* the list as long as it was.
C29_OnlyTheLastEntryStreams ==
  /\ [](\A j \in 1..Len(variations) :
          variations[j].isStreaming =>
            /\ j = Len(variations)
            /\ batch.pc = "await"
            /\ appState.isProcessing)
  /\ [](\A j \in 1..Len(batch.newVariations) :
          batch.newVariations[j].isStreaming <=> j = batch.i + 1)
  /\ [][(batch.pc = "await" /\ batch'.pc = "await" /\ batch'.i = batch.i) =>
          /\ Len(batch'.newVariations) = Len(batch.newVariations)
          /\ \A j \in 1..batch.i :
               batch'.newVariations[j] = batch.newVariations[j]]_vars

\* the second entry of a batch streams the text x behind a final first one
C29_SecondEntryStreams ==
  /\ batch.pc = "await"
  /\ batch.i = 1
  /\ Len(variations) = 2
  /\ ~variations[1].isStreaming
  /\ variations[2].isStreaming
  /\ variations[2].text = <<"x">>

(***************************************************************************)
(* Properties of the callbacks against the return of processText.          *)
(***************************************************************************)
\* C30: the callbacks of an activation of processText are made while it
\* reads the stream and none is made once it has returned; a success after
\* at least one callback carries cleanResponse of the last argument passed
\* to onStream.
C30_CallbacksPrecedeTheResult ==
  /\ [][\A k \in 1..Len(calls) :
          k <= Len(calls') =>
            /\ Len(calls'[k].streamed) > Len(calls[k].streamed) =>
                 calls[k].pc = "read"
            /\ calls[k].pc = "returned" =>
                 calls'[k].streamed = calls[k].streamed]_vars
  /\ [][Settled(calls) => (cbLog' = cbLog \/ cbLog' = <<>>)]_vars
  /\ [](\A k \in 1..Len(calls) :
          LET c == calls[k] IN
          (c.pc = "returned" /\ c.result.success /\ c.streamed # <<>>) =>
            c.result.processedText =
              cleanResponse(c.streamed[Len(c.streamed)], c.request.operation))

\* a success after two callbacks whose text is not the last argument of
\* onStream but its cleaned form
C30_CleanedLastCallback ==
  \E k \in 1..Len(calls) :
    /\ calls[k].pc = "returned"
    /\ calls[k].result.success
    /\ Len(calls[k].streamed) = 2
    /\ calls[k].result.processedText # calls[k].streamed[2]
====
